---- MODULE Spec2Model ----
(***************************************************************************)
(* The game orchestrator of the text adventure (the App component): its    *)
(* session state, the three user actions (start, choose, restart), the     *)
(* mount effect that detects the missing credential, and the asynchronous  *)
(* continuations of the two handlers. One action is one synchronous        *)
(* segment of JavaScript: the part of a handler up to its next await, or   *)
(* the part that runs when an awaited provider call settles.               *)
(***************************************************************************)
EXTENDS Integers, Sequences, FiniteSets, Bags, TLC

VARIABLES
    apiKeyPresent,    \* process.env.API_KEY is set (fixed at startup)
    mounted,          \* the mount effect has run
    gameState,        \* useState<GameStateFromAI | null>
    currentImageUrl,  \* useState<string | null>
    storyLog,         \* useState<string[]>
    isLoading,
    isImageLoading,
    error,            \* useState<string | null>
    gameStarted,
    apiKeyMissing,
    tasks,            \* bag of the handler invocations suspended at an await
    shown             \* history: non-game-over scenes shown in this playthrough

vars == <<apiKeyPresent, mounted, gameState, currentImageUrl, storyLog,
          isLoading, isImageLoading, error, gameStarted, apiKeyMissing,
          tasks, shown>>

\* ------------------------------------------------------------------ bounds
MaxTasks == 2   \* handler invocations suspended at the same time
MaxLog == 2     \* story log entries a playthrough may collect

\* ------------------------------------------------------------------ values
Null == "null"                 \* null of a string | null state
NoScene == [none |-> TRUE]     \* null of gameState

Themes == {"haunted library"}
ImageUrls == {"u1", "u3"}

\* what generateImage(prompt) can resolve with: an image made for that prompt
GeneratedImages(prompt) ==
    IF prompt = "p1" THEN {"u1"} ELSE IF prompt = "p3" THEN {"u3"} ELSE {}

\* GameStateFromAI
MakeScene(d, p, c, g, m) ==
    [sceneDescription |-> d, imagePrompt |-> p, choices |-> c,
     gameOver |-> g, gameOverMessage |-> m]

\* the scenes the provider may return: with and without an image prompt,
\* going on and game over, each with its own description
Scenes ==
    { MakeScene("s1", "p1", <<"Enter", "Walk away">>, FALSE, Null),
      MakeScene("s2", "", <<"Enter", "Walk away">>, FALSE, Null),
      MakeScene("s3", "p3", <<"Enter", "Walk away">>, TRUE, "You vanish."),
      MakeScene("s4", "", <<>>, TRUE, "The end.") }

\* what a rejected provider promise carries: an Error with a message, or
\* some other thrown value
Thrown == { [isError |-> TRUE, message |-> "provider error"],
            [isError |-> FALSE, message |-> ""] }

\* getInitialScene / getNextScene settle with a scene, with no data, or reject
TextOutcomes ==
    { [kind |-> "data", data |-> s, err |-> [isError |-> FALSE, message |-> ""]] :
         s \in Scenes }
    \cup { [kind |-> "empty", data |-> NoScene,
            err |-> [isError |-> FALSE, message |-> ""]] }
    \cup { [kind |-> "throw", data |-> NoScene, err |-> e] : e \in Thrown }

ApiKeyMissingMsg == "API Key is missing. Please ensure the API_KEY environment variable is set."
NoInitialDataMsg == "Failed to initialize game: No data received from AI."
NoNextDataMsg == "Failed to get next scene: No data received from AI."
UnknownStartMsg == "An unknown error occurred while starting the game."
UnknownChoiceMsg == "An unknown error occurred while processing your choice."

\* err instanceof Error ? err.message : <fallback>
CaughtMessage(kind, e) ==
    IF e.isError THEN e.message
    ELSE IF kind = "start" THEN UnknownStartMsg ELSE UnknownChoiceMsg

\* ------------------------------------------------------------ session, view
Session ==
    [gameStarted |-> gameStarted, gameState |-> gameState,
     currentImageUrl |-> currentImageUrl, storyLog |-> storyLog,
     error |-> error, isLoading |-> isLoading,
     isImageLoading |-> isImageLoading]

\* the useState initial values
InitialSession ==
    [gameStarted |-> FALSE, gameState |-> NoScene, currentImageUrl |-> Null,
     storyLog |-> <<>>, error |-> Null, isLoading |-> FALSE,
     isImageLoading |-> FALSE]

\* which screen App returns for session s
ViewOf(s, keyMissing) ==
    IF keyMissing /\ ~s.gameStarted THEN "Critical"
    ELSE IF ~s.gameStarted THEN "Start"
    ELSE IF s.gameState # NoScene /\ s.gameState.gameOver THEN "GameOver"
    ELSE "Playing"

View == ViewOf(Session, apiKeyMissing)

\* the message GameOverScreen shows
GameOverMessageShown == gameState.gameOverMessage

CriticalErrorMsg == "CRITICAL ERROR: API Key is not configured. The application cannot function. Please set the API_KEY environment variable."
LimitedMsg == "API Key is missing, game functionality is limited."

\* the text the rendered screen passes to an ErrorMessage component: the
\* critical screen shows its fixed text, the playing view shows
\* error || (apiKeyMissing ? ... : ""), and GameStartScreen and GameOverScreen
\* are not given the error
ErrorShown ==
    IF View = "Critical" THEN CriticalErrorMsg
    ELSE IF View = "Playing"
      THEN (IF error # Null /\ error # "" THEN error
            ELSE IF apiKeyMissing THEN LimitedMsg ELSE "")
    ELSE ""

\* GameStartScreen: the theme can be submitted unless isLoading
StartInvocable == View = "Start" /\ ~isLoading

\* ChoicesList is rendered when a scene is held and nothing is loading
ChoicesOffered == View = "Playing" /\ gameState # NoScene /\ ~isLoading

\* the buttons ChoicesList renders, one per entry of gameState.choices
OfferedChoices ==
    IF gameState = NoScene THEN {}
    ELSE { gameState.choices[k] : k \in 1..Len(gameState.choices) }

\* GameOverScreen carries the only restart control
RestartInvocable == View = "GameOver"

\* ------------------------------------------------------------------ tasks
NewTask(kind, arg, scene, log) ==
    [kind |-> kind, pc |-> "text", arg |-> arg, capScene |-> scene,
     capLog |-> log, data |-> NoScene, stale |-> FALSE]

Suspended == BagToSet(tasks)
PendingText == { t \in Suspended : t.pc = "text" }
PendingImage == { t \in Suspended : t.pc = "image" }
PendingChoices == { t \in Suspended : t.kind = "choice" /\ t.pc = "text" }

\* how many of the suspended invocations are in S
InFlight(S) == BagCardinality([t \in S |-> tasks[t]])

\* the invocation t is over / is replaced by u
Without(t) == tasks (-) SetToBag({t})
Replaced(t, u) == Without(t) (+) SetToBag({u})

\* every suspended invocation now predates a restart
AllStale ==
    LET S == { [t EXCEPT !.stale = TRUE] : t \in Suspended } IN
    [u \in S |-> InFlight({ t \in Suspended : [t EXCEPT !.stale = TRUE] = u })]


\* ------------------------------------------------------------------- init
Init ==
    /\ apiKeyPresent \in BOOLEAN
    /\ mounted = FALSE
    /\ gameState = InitialSession.gameState
    /\ currentImageUrl = InitialSession.currentImageUrl
    /\ storyLog = InitialSession.storyLog
    /\ isLoading = InitialSession.isLoading
    /\ isImageLoading = InitialSession.isImageLoading
    /\ error = InitialSession.error
    /\ gameStarted = InitialSession.gameStarted
    /\ apiKeyMissing = FALSE
    /\ tasks = EmptyBag
    /\ shown = 0

\* ---------------------------------------------------------------- actions
\* useEffect(() => {...}, []): runs once, after the first render
MountEffect ==
    /\ ~mounted
    /\ mounted' = TRUE
    /\ IF ~apiKeyPresent
         THEN apiKeyMissing' = TRUE /\ error' = ApiKeyMissingMsg
         ELSE UNCHANGED <<apiKeyMissing, error>>
    /\ UNCHANGED <<apiKeyPresent, gameState, currentImageUrl, storyLog,
                   isLoading, isImageLoading, gameStarted, tasks, shown>>

\* handleStartGame up to `await getInitialScene(theme)`
handleStartGame(theme) ==
    /\ StartInvocable
    /\ BagCardinality(tasks) < MaxTasks
    /\ IF apiKeyMissing
         THEN UNCHANGED <<isLoading, error, storyLog, currentImageUrl, tasks, shown>>
         ELSE /\ isLoading' = TRUE
              /\ error' = Null
              /\ storyLog' = <<>>
              /\ currentImageUrl' = Null
              /\ tasks' = tasks (+) SetToBag({NewTask("start", theme, NoScene, <<>>)})
              /\ shown' = 0
    /\ UNCHANGED <<apiKeyPresent, mounted, gameState, isImageLoading,
                   gameStarted, apiKeyMissing>>

\* a handler that ends without its finally block
Finally_KeepsLoading(t) ==
    /\ UNCHANGED isLoading
    /\ tasks' = Without(t)

\* the finally block: setIsLoading(false), and the invocation is over
Finally(t) ==
    /\ isLoading' = FALSE
    /\ tasks' = Without(t)

\* the `if (data.imagePrompt)` block up to `await generateImage(...)`; without
\* a prompt the handler runs through to its finally block
RequestImage(t, data) ==
    IF data.imagePrompt # ""
      THEN /\ isImageLoading' = TRUE
           /\ tasks' = Replaced(t, [t EXCEPT !.pc = "image", !.data = data])
           /\ UNCHANGED isLoading
      ELSE /\ Finally(t)
           /\ UNCHANGED isImageLoading

\* a failure path that sets the message and asks the provider again
TextFailed_Retries(t, r) ==
    /\ error' = IF r.kind = "empty"
                  THEN (IF t.kind = "start" THEN NoInitialDataMsg ELSE NoNextDataMsg)
                  ELSE CaughtMessage(t.kind, r.err)
    /\ UNCHANGED <<gameState, storyLog, gameStarted, isImageLoading, shown,
                   isLoading, tasks>>

\* the else branch (no data) and the catch block of a text request
TextFailed(t, r) ==
    /\ error' = IF r.kind = "empty"
                  THEN (IF t.kind = "start" THEN NoInitialDataMsg ELSE NoNextDataMsg)
                  ELSE CaughtMessage(t.kind, r.err)
    /\ Finally(t)
    /\ UNCHANGED <<gameState, storyLog, gameStarted, isImageLoading, shown>>

ShownAfter(data) == IF data.gameOver THEN shown ELSE shown + 1

\* what setStoryLog receives when getInitialScene returned data
InitialLog(data) == <<data.sceneDescription>>

\* what setStoryLog(prevLog => ...) leaves when getNextScene returned data
NextLog(prevLog, data) ==
    IF ~data.gameOver THEN Append(prevLog, data.sceneDescription) ELSE prevLog

\* handleStartGame from the moment getInitialScene settles. React runs a
\* pending mount effect before it renders the handler's first updates, so
\* the effect has run by the time a provider call settles.
StartTextSettled(t, r) ==
    /\ mounted
    /\ t.kind = "start" /\ t.pc = "text"
    /\ IF r.kind = "data"
         THEN /\ gameState' = r.data
              /\ storyLog' = InitialLog(r.data)
              /\ gameStarted' = TRUE
              /\ shown' = ShownAfter(r.data)
              /\ RequestImage(t, r.data)
              /\ UNCHANGED error
         ELSE TextFailed(t, r)
    /\ UNCHANGED <<apiKeyPresent, mounted, currentImageUrl, apiKeyMissing>>

\* handleChoiceSelected up to `await getNextScene(...)`; the callback closes
\* over the gameState and storyLog of the render the click came from
handleChoiceSelected(choice) ==
    /\ ChoicesOffered
    /\ BagCardinality(tasks) < MaxTasks
    /\ Len(storyLog) + InFlight(PendingChoices) < MaxLog
    /\ IF gameState = NoScene \/ apiKeyMissing
         THEN UNCHANGED <<isLoading, error, currentImageUrl, tasks>>
         ELSE /\ isLoading' = TRUE
              /\ error' = Null
              /\ currentImageUrl' = Null
              /\ tasks' = tasks (+) SetToBag({NewTask("choice", choice, gameState, storyLog)})
    /\ UNCHANGED <<apiKeyPresent, mounted, gameState, storyLog, isImageLoading,
                   gameStarted, apiKeyMissing, shown>>

\* handleChoiceSelected from the moment getNextScene settles
ChoiceTextSettled(t, r) ==
    /\ t.kind = "choice" /\ t.pc = "text"
    /\ IF r.kind = "data"
         THEN /\ gameState' = r.data
              /\ storyLog' = NextLog(storyLog, r.data)
              /\ shown' = ShownAfter(r.data)
              /\ RequestImage(t, r.data)
              /\ UNCHANGED <<error, gameStarted>>
         ELSE TextFailed(t, r)
    /\ UNCHANGED <<apiKeyPresent, mounted, currentImageUrl, apiKeyMissing>>

\* either handler from the moment generateImage resolves
ImageResolved(t, url) ==
    /\ t.pc = "image"
    /\ url \in GeneratedImages(t.data.imagePrompt)
    /\ currentImageUrl' = url
    /\ isImageLoading' = FALSE
    /\ Finally(t)
    /\ UNCHANGED <<apiKeyPresent, mounted, gameState, storyLog, error,
                   gameStarted, apiKeyMissing, shown>>

\* either handler from the moment generateImage rejects: the catch block,
\* then the finally block
ImageFailed(t, e) ==
    /\ t.pc = "image"
    /\ error' = CaughtMessage(t.kind, e)
    /\ Finally(t)
    /\ UNCHANGED <<apiKeyPresent, mounted, gameState, currentImageUrl, storyLog,
                   isImageLoading, gameStarted, apiKeyMissing, shown>>

\* a handleRestartGame that forgets setIsImageLoading(false)
handleRestartGame_KeepsImageLoading(s) ==
    [s EXCEPT !.gameStarted = FALSE, !.gameState = NoScene,
              !.currentImageUrl = Null, !.storyLog = <<>>, !.error = Null,
              !.isLoading = FALSE]

\* handleRestartGame: the seven setters, applied to session s
handleRestartGame(s) ==
    [s EXCEPT !.gameStarted = FALSE, !.gameState = NoScene,
              !.currentImageUrl = Null, !.storyLog = <<>>, !.error = Null,
              !.isLoading = FALSE, !.isImageLoading = FALSE]

\* the restart button of GameOverScreen; the requests in flight are not
\* cancelled, their handlers go on when the provider settles
RestartGame ==
    /\ RestartInvocable
    /\ LET r == handleRestartGame(Session) IN
         /\ gameStarted' = r.gameStarted
         /\ gameState' = r.gameState
         /\ currentImageUrl' = r.currentImageUrl
         /\ storyLog' = r.storyLog
         /\ error' = r.error
         /\ isLoading' = r.isLoading
         /\ isImageLoading' = r.isImageLoading
    /\ tasks' = AllStale
    /\ shown' = 0
    /\ UNCHANGED <<apiKeyPresent, mounted, apiKeyMissing>>

StartGame == \E theme \in Themes : handleStartGame(theme)
ChooseOption == \E choice \in OfferedChoices : handleChoiceSelected(choice)
InitialSceneSettles == \E t \in Suspended, r \in TextOutcomes : StartTextSettled(t, r)
NextSceneSettles == \E t \in Suspended, r \in TextOutcomes : ChoiceTextSettled(t, r)
ImageResolves == \E t \in Suspended, url \in ImageUrls : ImageResolved(t, url)
ImageFails == \E t \in Suspended, e \in Thrown : ImageFailed(t, e)

Next ==
    \/ MountEffect
    \/ StartGame
    \/ ChooseOption
    \/ InitialSceneSettles
    \/ NextSceneSettles
    \/ ImageResolves
    \/ ImageFails
    \/ RestartGame

Spec == Init /\ [][Next]_vars

\* the mount effect runs, and every provider call eventually resolves or fails
FairSpec ==
    /\ Spec
    /\ WF_vars(MountEffect)
    /\ WF_vars(InitialSceneSettles)
    /\ WF_vars(NextSceneSettles)
    /\ WF_vars(ImageResolves \/ ImageFails)

\* ----------------------------------------------------------------- claims
IsPrefix(a, b) == Len(a) <= Len(b) /\ SubSeq(b, 1, Len(a)) = a

\* the suspended handler invocation t goes on: its provider call
\* settles, one way or another
TextSettles(t) ==
    \E r \in TextOutcomes : StartTextSettled(t, r) \/ ChoiceTextSettled(t, r)
ImageSettles(t) ==
    \/ \E url \in ImageUrls : ImageResolved(t, url)
    \/ \E e \in Thrown : ImageFailed(t, e)

\* C1: restart is total and idempotent. The restart step leaves exactly the
\* initial empty session; handleRestartGame maps every reachable session to
\* it, and applied to its own result it changes nothing.
C1_RestartYieldsInitialSession ==
    [][/\ RestartGame => Session' = InitialSession
       /\ handleRestartGame(Session) = InitialSession
       /\ handleRestartGame(handleRestartGame(Session)) = handleRestartGame(Session)]_vars

\* a restart has been made while a request was in flight, and the session
\* is the initial one
C1_Witness ==
    /\ \E t \in Suspended : t.stale
    /\ Session = InitialSession

\* C2: no residual state leaks across a restart. The completion of a request
\* that was issued before a restart changes no session field. Stated, as
\* C3 to C6 and C8 to C10 are, for a session whose credential is present.
C2_NoLeakAcrossRestart ==
    [][\A t \in Suspended :
         (apiKeyPresent /\ t.stale /\ (TextSettles(t) \/ ImageSettles(t)))
            => Session' = Session]_vars

\* C3: input gating. At most one getInitialScene/getNextScene call is in
\* flight in every reachable state.
C3_AtMostOneTextRequest == apiKeyPresent => InFlight(PendingText) <= 1

\* C4: a text response with gameOver = true, once applied, puts the GameOver
\* screen with that response's message on display; while gameState.gameOver
\* holds no choice is offered and restart is the only user action; restart is
\* available in the GameOver view only.
C4_GameOverReached ==
    [][apiKeyPresent =>
       /\ \A t \in Suspended, r \in TextOutcomes :
            (r.kind = "data" /\ r.data.gameOver
               /\ (StartTextSettled(t, r) \/ ChoiceTextSettled(t, r)))
            => (View' = "GameOver" /\ GameOverMessageShown' = r.data.gameOverMessage)
       /\ (gameState' # NoScene /\ gameState'.gameOver)
            => (~ChoicesOffered' /\ ~StartInvocable' /\ RestartInvocable')
       /\ RestartInvocable' => View' = "GameOver"]_vars

\* C5: the story log is append-only within a playthrough (every step other
\* than a start or a restart leaves the old log a prefix of the new one) and
\* it is as long as the number of non-game-over scenes shown in the
\* playthrough, a game-over first scene included. Stated for a session whose
\* credential is present.
C5_LogCountsScenesShown ==
    [][apiKeyPresent =>
         /\ Len(storyLog') = shown'
         /\ ~(StartGame \/ RestartGame) => IsPrefix(storyLog, storyLog')]_vars

\* the suspended invocation t of handleStartGame finishes with this
\* step; scene is what getInitialScene gave it (NoScene: nothing)
StartFinishes(t, scene) ==
    \/ \E r \in TextOutcomes :
         /\ StartTextSettled(t, r)
         /\ r.data = scene
         /\ r.kind = "data" => r.data.imagePrompt = ""
    \/ /\ t.kind = "start"
       /\ t.data = scene
       /\ ImageSettles(t)

StartedShape(scene) ==
    /\ gameStarted
    /\ gameState = scene
    /\ View \in {"Playing", "GameOver"}

NotStartedShape ==
    /\ ~gameStarted
    /\ gameState = NoScene
    /\ View = "Start"
    /\ error # Null

\* C6: when handleStartGame has finished, the session is started with the
\* scene getInitialScene returned, or it is not started and shows an error;
\* a failed or empty getInitialScene gives the second. Stated for a session
\* whose credential is present and a start made after the last restart.
C6_StartOutcome ==
    [][\A t \in Suspended, scene \in Scenes \cup {NoScene} :
         (apiKeyPresent /\ ~t.stale /\ StartFinishes(t, scene)) =>
            IF scene = NoScene
              THEN NotStartedShape'
              ELSE StartedShape(scene)' \/ NotStartedShape']_vars

\* C7: with the credential absent, no provider call is ever issued,
\* gameStarted stays false, the critical error screen is on display and the
\* start action cannot be invoked, from the first render on.
C7_NoCredentialsHeld ==
    ~apiKeyPresent =>
        /\ tasks = EmptyBag
        /\ ~gameStarted
        /\ View = "Critical"
        /\ ~StartInvocable

\* C8: every generateImage call in flight was issued for the imagePrompt of
\* a text response that had resolved, and a text request and an image
\* request are never in flight together.
C8_TextThenImage ==
    apiKeyPresent =>
        /\ \A t \in PendingImage :
              t.data \in Scenes /\ t.data.imagePrompt # ""
        /\ PendingText = {} \/ PendingImage = {}

\* the log a handler leaves once the scene in data has been applied
LogWithScene(task) ==
    IF task.kind = "start" THEN InitialLog(task.data)
    ELSE NextLog(task.capLog, task.data)

ChoicesOf(scene) == { scene.choices[k] : k \in 1..Len(scene.choices) }

\* C9: an image failure is not fatal. When generateImage fails, the handler
\* ends with the new scene as gameState, the log update kept, no image, and
\* the player in Playing with the scene's choices on offer (GameOver for a
\* game-over scene). Stated for a handler whose playthrough has not been
\* restarted meanwhile.
C9_ImageFailureNonFatal ==
    [][\A t \in Suspended, e \in Thrown :
         (apiKeyPresent /\ ~t.stale /\ ImageFailed(t, e)) =>
            /\ gameState' = t.data
            /\ storyLog' = LogWithScene(t)
            /\ currentImageUrl' = Null
            /\ IF t.data.gameOver
                 THEN View' = "GameOver"
                 ELSE /\ View' = "Playing"
                      /\ ChoicesOffered'
                      /\ OfferedChoices' = ChoicesOf(t.data)]_vars

\* C10: a failed or empty getNextScene aborts that request only. The handler
\* ends with gameState and storyLog as they were when the choice was made,
\* an error set, isLoading false and the same choices on offer. Stated for a
\* handler whose playthrough has not been restarted meanwhile.
C10_FailedChoiceRestoresState ==
    [][\A t \in Suspended, r \in TextOutcomes :
         (apiKeyPresent /\ ~t.stale /\ r.kind # "data"
            /\ ChoiceTextSettled(t, r)) =>
            /\ gameState' = t.capScene
            /\ storyLog' = t.capLog
            /\ error' # Null
            /\ ~isLoading'
            /\ ChoicesOffered'
            /\ OfferedChoices' = ChoicesOf(t.capScene)]_vars

\* C11: every recorded text-generation failure is shown to the user. When
\* getInitialScene or getNextScene fails or returns no data, the screen
\* rendered once the handler has finished displays the error message, on the
\* start screen as well as in the playing view. Stated for a session whose
\* credential is present and a handler whose playthrough has not been
\* restarted meanwhile.
C11_TextFailureShown ==
    [][\A t \in Suspended, r \in TextOutcomes :
         (apiKeyPresent /\ ~t.stale /\ r.kind # "data"
            /\ (StartTextSettled(t, r) \/ ChoiceTextSettled(t, r))) =>
            (error' # Null /\ ErrorShown' = error')]_vars

\* C12: no automatic retries. A step issues at most one provider call. A text
\* call is issued only by a user action (startGame or chooseOption), one per
\* action. An image call is issued only by the handler whose text call has just
\* returned data, one per text call, in place of it. A step in which a text or
\* image call fails or returns no data ends its handler and issues no call, so
\* the calls of each kind never outnumber the accepted user actions.
TextCalls == InFlight(PendingText)
ImageCalls == InFlight(PendingImage)
FailedOutcomes == { r \in TextOutcomes : r.kind # "data" }

C12_NoAutomaticRetry ==
    [][/\ TextCalls' <= TextCalls + 1
       /\ TextCalls' > TextCalls =>
            /\ StartGame \/ ChooseOption
            /\ ImageCalls' = ImageCalls
       /\ ImageCalls' <= ImageCalls + 1
       /\ ImageCalls' > ImageCalls =>
            /\ TextCalls' = TextCalls - 1
            /\ \E t \in PendingText, r \in TextOutcomes \ FailedOutcomes :
                 StartTextSettled(t, r) \/ ChoiceTextSettled(t, r)
       /\ \A t \in PendingText, r \in FailedOutcomes :
            (StartTextSettled(t, r) \/ ChoiceTextSettled(t, r))
               => (tasks' = Without(t) /\ error' # Null)
       /\ \A t \in PendingImage, e \in Thrown :
            ImageFailed(t, e) => (tasks' = Without(t) /\ error' # Null)]_vars

\* a choice's text call has failed and nothing has been asked of the provider since
C12_Witness ==
    /\ error = NoNextDataMsg
    /\ gameStarted
    /\ tasks = EmptyBag

\* C13: choosing an option clears the displayed image at once. While a
\* chooseOption of the current playthrough is waiting for getNextScene,
\* currentImageUrl is null in every state, whatever other pending requests
\* complete meanwhile (credential present).
C13_ImageClearedWhileChoosing ==
    apiKeyPresent =>
        \A t \in PendingChoices : ~t.stale => currentImageUrl = Null

\* C14: no error escapes and every action completes. Provided every provider
\* call eventually resolves or fails, every accepted startGame or chooseOption
\* (which sets isLoading) is followed by a state with isLoading = false; and a
\* step in which getInitialScene, getNextScene or generateImage throws or
\* returns no data is caught by its handler: error becomes one of the message
\* strings, the finally block clears isLoading, and the handler ends.
ErrorMessages ==
    {NoInitialDataMsg, NoNextDataMsg, UnknownStartMsg, UnknownChoiceMsg}
        \cup { e.message : e \in { x \in Thrown : x.isError } }

FailureCaught(t) ==
    /\ error' \in ErrorMessages
    /\ ~isLoading'
    /\ tasks' = Without(t)

C15_IdleMeansNotLoading ==
    apiKeyPresent =>
        (tasks = EmptyBag => (~isLoading /\ ~isImageLoading))

\* C16: every getNextScene call is made with the sceneDescription of the scene
\* on display, the chosen option and the story log so far; that log holds one
\* entry for each non-game-over scene shown in the current playthrough and
\* ends with the sceneDescription on display; and a startGame that received
\* data leaves the log equal to <<its sceneDescription>> (credential present).
GetNextSceneCalledWith(scene, choice, log) ==
    \E t \in PendingChoices' :
        /\ ~t.stale
        /\ t.capScene = scene /\ t.arg = choice /\ t.capLog = log
        /\ tasks'[t] > (IF t \in Suspended THEN tasks[t] ELSE 0)

C16_NextSceneArguments ==
    [][apiKeyPresent =>
        /\ \A choice \in OfferedChoices :
             handleChoiceSelected(choice) =>
                /\ GetNextSceneCalledWith(gameState, choice, storyLog)
                /\ Len(storyLog) = shown
                /\ storyLog # <<>>
                /\ storyLog[Len(storyLog)] = gameState.sceneDescription
        /\ \A t \in PendingText, r \in TextOutcomes \ FailedOutcomes :
             (~t.stale /\ StartTextSettled(t, r)) =>
                storyLog' = <<r.data.sceneDescription>>]_vars

\* C17: for every text response that carries data, the handler issues exactly
\* one generateImage call if imagePrompt is non-empty, and none, leaving
\* isImageLoading untouched, if it is empty, for game-over and other scenes
\* alike; and a response with gameOver = true replaces gameState and adds
\* nothing to the story log (credential present, handler of the current
\* playthrough).
ImageRequestedFor(t, data) ==
    IF data.imagePrompt # ""
      THEN /\ ImageCalls' = ImageCalls + 1
           /\ [t EXCEPT !.pc = "image", !.data = data] \in PendingImage'
           /\ isImageLoading'
      ELSE /\ ImageCalls' = ImageCalls
           /\ isImageLoading' = isImageLoading

C17_OneImagePerScene ==
    [][\A t \in PendingText, r \in TextOutcomes \ FailedOutcomes :
         (apiKeyPresent /\ ~t.stale
            /\ (StartTextSettled(t, r) \/ ChoiceTextSettled(t, r))) =>
            /\ ImageRequestedFor(t, r.data)
            /\ gameState' = r.data
            /\ r.data.gameOver => storyLog' = storyLog]_vars

\* C18: the displayed image belongs to the displayed scene. In every reachable
\* state currentImageUrl is null or an image generated for the imagePrompt of
\* the current gameState, never one made for an earlier scene or an earlier
\* playthrough (credential present).
C18_ImageBelongsToScene ==
    apiKeyPresent =>
        (currentImageUrl # Null =>
            /\ gameState # NoScene
            /\ currentImageUrl \in GeneratedImages(gameState.imagePrompt))

\* C19: in every reachable state gameStarted is true exactly when gameState
\* is non-null, so the start screen is never shown while a scene is held and
\* the playing view is never shown without a scene (credential present).
C19_StartedIffSceneHeld ==
    apiKeyPresent =>
        /\ gameStarted <=> gameState # NoScene
        /\ View = "Start" => gameState = NoScene
        /\ View = "Playing" => gameState # NoScene

====
